---- MODULE Spec2Model ----
(***************************************************************************)
(* State-machine model of app.py: the FastAPI backend with the endpoints   *)
(* GET /, POST /generate-image and POST /trending.                         *)
(*                                                                         *)
(* Python strings that the code case-converts (payload.source, which is    *)
(* lower-cased, and payload.country, which is upper-cased) are modelled as *)
(* sequences of one-character strings so that the conversion is computed   *)
(* character by character.  Strings that are only passed through are TLA+  *)
(* strings.                                                                *)
(***************************************************************************)
EXTENDS Integers, Sequences, FiniteSets, TLC

VARIABLES env, pc, req, limit, source, results, errors, calls, upstream,
          outcome, response

vars == <<env, pc, req, limit, source, results, errors, calls, upstream,
          outcome, response>>

----------------------------------------------------------------------------
(* Bounds of the model *)

\* number of entries / trending terms / hot posts an upstream has on offer
MaxEntries == 2

----------------------------------------------------------------------------
(* Python helpers *)

UpperChars == <<"A","B","C","D","E","F","G","H","I","J","K","L","M",
                "N","O","P","Q","R","S","T","U","V","W","X","Y","Z">>
LowerChars == <<"a","b","c","d","e","f","g","h","i","j","k","l","m",
                "n","o","p","q","r","s","t","u","v","w","x","y","z">>

IndexIn(c, table) == CHOOSE i \in 1..Len(table) : table[i] = c

LowerChar(c) ==
    IF \E i \in 1..Len(UpperChars) : UpperChars[i] = c
    THEN LowerChars[IndexIn(c, UpperChars)] ELSE c

UpperChar(c) ==
    IF \E i \in 1..Len(LowerChars) : LowerChars[i] = c
    THEN UpperChars[IndexIn(c, LowerChars)] ELSE c

\* str.lower() with every character kept as it is
Lower_identity(s) == s

\* str.lower()
Lower(s) == [i \in 1..Len(s) |-> LowerChar(s[i])]

\* str.upper()
Upper(s) == [i \in 1..Len(s) |-> UpperChar(s[i])]

Min(a, b) == IF a < b THEN a ELSE b
Max(a, b) == IF a > b THEN a ELSE b

\* seq[:n], also DataFrame.head(n): a negative n drops the last -n elements
PySlice(s, n) ==
    IF n >= 0 THEN SubSeq(s, 1, Min(n, Len(s)))
    ELSE SubSeq(s, 1, Max(0, Len(s) + n))

\* None, as returned by os.getenv for an unset variable
NoneVal == "<None>"

\* truth value of an Optional[str]
Truthy(v) == v # NoneVal /\ v # ""

\* getattr(entry, f, "")
GetAttr(entry, f) == IF f \in DOMAIN entry THEN entry[f] ELSE ""

\* outcome of a Python call: a returned value or a raised exception
Ret(v) == [raised |-> FALSE, value |-> v]
Raise(msg) == [raised |-> TRUE, exc |-> msg]

----------------------------------------------------------------------------
(* String literals of app.py that take part in case conversion *)

S_all           == <<"a","l","l">>
S_google_trends == <<"g","o","o","g","l","e","_","t","r","e","n","d","s">>
S_google_news   == <<"g","o","o","g","l","e","_","n","e","w","s">>
S_reddit        == <<"r","e","d","d","i","t">>
S_reuters       == <<"r","e","u","t","e","r","s">>
S_flipboard     == <<"f","l","i","p","b","o","a","r","d">>

\* the five adapters in the order of the if-statements of trending()
AdapterOrder == <<S_google_trends, S_google_news, S_reddit, S_reuters,
                  S_flipboard>>

Adapters == {AdapterOrder[i] : i \in 1..Len(AdapterOrder)}

\* allowed = {"all", "google_trends", "google_news", "reddit", ...}
allowed == {S_all} \cup Adapters

\* pn_map of get_google_trends
pn_map ==
    (<<"I","N">> :> "india") @@ (<<"U","S">> :> "united_states")
    @@ (<<"G","B">> :> "united_kingdom") @@ (<<"C","A">> :> "canada")
    @@ (<<"A","U">> :> "australia")

\* dict.get(key, default)
DictGet(d, key, default) == IF key \in DOMAIN d THEN d[key] ELSE default

----------------------------------------------------------------------------
(* Inputs *)

EnvValues == {NoneVal, "", "set"}

\* process configurations read by os.getenv at import time
Envs == [PEXELS_API_KEY : EnvValues,
         REDDIT_CLIENT_ID : {NoneVal, "set"},
         REDDIT_CLIENT_SECRET : EnvValues]

SourceInputs ==
    { S_all, <<"A","L","L">>, S_google_trends, S_google_news, S_reddit,
      <<"R","e","d","d","i","t">>, S_reuters, <<"R","E","U","T","E","R","S">>,
      S_flipboard, <<>>, <<" ","a","l","l">>, <<"r","s","s">>,
      <<"B","I","N","G">> }

LimitInputs == {-3, 0, 1, 5, 10, 11, 999}

CountryInputs == { <<"I","N">>, <<"U","S">>, <<"G","B">>, <<"C","A">>,
                   <<"A","U">>, <<"u","s">>, <<"Z","Z">> }

TrendingPayloads == [source : SourceInputs, limit : LimitInputs,
                     country : CountryInputs, language : {"en"},
                     subreddit : {"all"}]

ImagePayloads == [prompt : {"", "cat"}, orientation : {"landscape", "portrait"}]

\* what the feed server does when feedparser.parse fetches the URL
FeedConditions == {"ok", "malformed", "unreachable", "reset"}
\* what the trends provider does: a ranked list, or a failed request
TrendsConditions == {"ok", "error"}
\* what the forum API does: a hot listing, or a failed request
RedditConditions == {"ok", "error"}
\* what the image provider does
PexelsConditions == {"exception", "non200", "no_photos", "ok"}

----------------------------------------------------------------------------
(* Upstream collaborators *)

\* entries of the feed document; every second entry has no "published"
FeedEntries ==
    [i \in 1..MaxEntries |->
        IF i % 2 = 1
        THEN [title |-> "entry" \o ToString(i), link |-> "http://e/" \o ToString(i),
              published |-> "day" \o ToString(i)]
        ELSE [title |-> "entry" \o ToString(i), link |-> "http://e/" \o ToString(i)]]

\* feedparser.parse(url): a URLError while opening the URL and a document
\* that does not parse are both reported in the result (bozo set, no
\* entries), not raised; a connection failure while reading propagates
feedparser_parse(cond) ==
    CASE cond = "ok"          -> Ret([bozo |-> FALSE, entries |-> FeedEntries])
      [] cond = "malformed"   -> Ret([bozo |-> TRUE, entries |-> <<>>])
      [] cond = "unreachable" -> Ret([bozo |-> TRUE, entries |-> <<>>])
      [] cond = "reset"       -> Raise("Connection reset by peer")

\* rows of the DataFrame returned by TrendReq().trending_searches(pn=pn)
TrendingTerms(pn) == [i \in 1..MaxEntries |-> pn \o " term" \o ToString(i)]

\* posts of reddit.subreddit(name).hot()
HotPosts(name) ==
    [i \in 1..MaxEntries |->
        [title |-> name \o " post" \o ToString(i), url |-> "http://r/" \o ToString(i)]]

----------------------------------------------------------------------------
(* Trend section *)

MinLimit == 1
MaxLimit == 10

\* clamp_limit without the lower bound
clamp_limit_upper_only(n) == Min(n, MaxLimit)

clamp_limit(n) == Max(MinLimit, Min(n, MaxLimit))

rss_top(cond, lim) ==
    LET feed == feedparser_parse(cond) IN
    IF feed.raised THEN feed
    ELSE LET es == PySlice(feed.value.entries, lim) IN
         Ret([i \in 1..Len(es) |->
                [title |-> GetAttr(es[i], "title"),
                 link |-> GetAttr(es[i], "link"),
                 published |-> GetAttr(es[i], "published")]])

\* the rss_url each feed adapter builds
NewsUrl(country, language) ==
    [base |-> "https://news.google.com/rss", hl |-> <<language, country>>,
     gl |-> country, ceid |-> <<country, language>>]
ReutersUrl ==
    [base |-> "https://www.reutersagency.com/feed/?best-topics=business-finance&post_type=best"]
FlipboardUrl == [base |-> "https://flipboard.com/@news.rss"]

get_google_news(lim, country, language, cond) ==
    LET r == rss_top(cond, lim) IN
    IF r.raised THEN r ELSE Ret([source |-> S_google_news, items |-> r.value])

get_reuters(lim, cond) ==
    LET r == rss_top(cond, lim) IN
    IF r.raised THEN r ELSE Ret([source |-> S_reuters, items |-> r.value])

get_flipboard(lim, cond) ==
    LET r == rss_top(cond, lim) IN
    IF r.raised THEN r ELSE Ret([source |-> S_flipboard, items |-> r.value])

\* the region looked up without upper-casing the country
TrendsRegion_exact(country) == DictGet(pn_map, country, "india")

\* pn = pn_map.get(country.upper(), "india")
TrendsRegion(country) == DictGet(pn_map, Upper(country), "india")

get_google_trends(lim, country, cond) ==
    LET pn == TrendsRegion(country) IN
    IF cond = "error" THEN Raise("The request failed: Google returned a response with code 429")
    ELSE LET terms == PySlice(TrendingTerms(pn), lim) IN
         Ret([source |-> S_google_trends,
              items |-> [i \in 1..Len(terms) |->
                            [title |-> terms[i], link |-> "", published |-> ""]]])

\* the credential test looking at the client id only
RedditKeysMissing_id_only == ~ Truthy(env.REDDIT_CLIENT_ID)

\* not (REDDIT_CLIENT_ID and REDDIT_CLIENT_SECRET)
RedditKeysMissing ==
    ~ (Truthy(env.REDDIT_CLIENT_ID) /\ Truthy(env.REDDIT_CLIENT_SECRET))

get_reddit(lim, subreddit_name, cond) ==
    IF RedditKeysMissing
    THEN Ret([source |-> S_reddit, items |-> <<>>, warning |-> "Reddit keys missing"])
    ELSE IF cond = "error" THEN Raise("received 401 HTTP response")
    ELSE LET posts == PySlice(HotPosts(subreddit_name), Max(lim, 0)) IN
         Ret([source |-> S_reddit,
              items |-> [i \in 1..Len(posts) |->
                            [title |-> posts[i].title, link |-> posts[i].url,
                             published |-> ""]]])

\* the outbound calls an adapter makes
TrendsUpstream(country) == <<[provider |-> "pytrends", pn |-> TrendsRegion(country)]>>
FeedUpstream(url) == <<[provider |-> "feedparser", url |-> url]>>
RedditUpstream(subreddit_name) ==
    IF RedditKeysMissing THEN <<>>
    ELSE <<[provider |-> "praw", subreddit |-> subreddit_name]>>

\* safe_call that throws the earlier results away when fn() raises
SafeResults_reset(r, res) == IF r.raised THEN <<>> ELSE Append(res, r.value)

\* safe_call that puts the new result in front
SafeResults_prepend(r, res) == IF r.raised THEN res ELSE <<r.value>> \o res

\* safe_call, the try branch: results.append(fn())
SafeResults(r, res) == IF r.raised THEN res ELSE Append(res, r.value)

\* safe_call that swallows the exception
SafeErrors_swallow(r, name, errs) == errs

\* safe_call, the except branch: errors.append({"source": name, "error": str(e)})
SafeErrors(r, name, errs) ==
    IF r.raised THEN Append(errs, [source |-> name, error |-> r.exc]) ELSE errs

HTTPException(status_code, detail) == [status |-> status_code, detail |-> detail]
Ok(body) == [status |-> 200, body |-> body]
NoResponse == [status |-> 0]
NoRequest == [endpoint |-> "none"]

\* the response whose flag follows the error list
TrendingBody_flag_follows_errors(src, lim, res, errs) ==
    [success |-> (errs = <<>>), requested_source |-> src, limit |-> lim,
     data |-> res, errors |-> errs]

\* the dict returned by trending()
TrendingBody(src, lim, res, errs) ==
    [success |-> TRUE, requested_source |-> src, limit |-> lim,
     data |-> res, errors |-> errs]

NoOutcome == [a \in Adapters |-> "not called"]

----------------------------------------------------------------------------
(* Image section *)

\* generate_image without the prompt check
generate_image_no_prompt_check(payload, cond) ==
    IF ~ Truthy(env.PEXELS_API_KEY)
    THEN HTTPException(500, "PEXELS_API_KEY missing in Render ENV")
    ELSE IF cond = "exception" THEN HTTPException(500, "connection failed")
    ELSE IF cond = "non200" THEN HTTPException(500, "upstream error text")
    ELSE IF cond = "no_photos" THEN HTTPException(404, "No images found")
    ELSE Ok([success |-> TRUE, image_url |-> "large.jpg",
             photographer |-> "name", source |-> "pexels"])

\* the response of generate_image(payload) when the provider behaves as cond
generate_image(payload, cond) ==
    IF ~ Truthy(env.PEXELS_API_KEY)
    THEN HTTPException(500, "PEXELS_API_KEY missing in Render ENV")
    ELSE IF payload.prompt = "" THEN HTTPException(400, "Prompt is required")
    ELSE IF cond = "exception" THEN HTTPException(500, "connection failed")
    ELSE IF cond = "non200" THEN HTTPException(500, "upstream error text")
    ELSE IF cond = "no_photos" THEN HTTPException(404, "No images found")
    ELSE Ok([success |-> TRUE, image_url |-> "large.jpg",
             photographer |-> "name", source |-> "pexels"])

\* the requests.get of generate_image, reached past the two checks
PexelsUpstream(payload) ==
    IF Truthy(env.PEXELS_API_KEY) /\ payload.prompt # ""
    THEN <<[provider |-> "pexels", query |-> payload.prompt,
            per_page |-> 1, orientation |-> payload.orientation]>>
    ELSE <<>>

----------------------------------------------------------------------------
(* The state machine *)

Init ==
    /\ env \in Envs
    /\ pc = "idle"
    /\ req = NoRequest
    /\ limit = 0
    /\ source = <<>>
    /\ results = <<>>
    /\ errors = <<>>
    /\ calls = <<>>
    /\ upstream = <<>>
    /\ outcome = NoOutcome
    /\ response = NoResponse

\* GET /
Home ==
    /\ pc = "idle"
    /\ req' = [endpoint |-> "home"]
    /\ response' = Ok([status |-> "Backend running",
                       endpoints |-> <<"/generate-image", "/trending">>])
    /\ pc' = "done"
    /\ UNCHANGED <<env, limit, source, results, errors, calls, upstream, outcome>>

\* POST /generate-image
GenerateImage ==
    /\ pc = "idle"
    /\ \E payload \in ImagePayloads, cond \in PexelsConditions :
         /\ req' = [endpoint |-> "generate-image", payload |-> payload]
         /\ response' = generate_image(payload, cond)
         /\ upstream' = upstream \o PexelsUpstream(payload)
    /\ pc' = "done"
    /\ UNCHANGED <<env, limit, source, results, errors, calls, outcome>>

\* POST /trending, up to the source check
TrendingBegin ==
    /\ pc = "idle"
    /\ \E payload \in TrendingPayloads :
         /\ req' = [endpoint |-> "trending", payload |-> payload]
         /\ limit' = clamp_limit(payload.limit)
         /\ source' = Lower(payload.source)
    /\ IF source' \notin allowed
       THEN /\ response' = HTTPException(400, "Invalid source")
            /\ pc' = "done"
       ELSE /\ response' = response
            /\ pc' = "at_google_trends"
    /\ results' = <<>>
    /\ errors' = <<>>
    /\ UNCHANGED <<env, calls, upstream, outcome>>

\* if source in ("all", name): safe_call(lambda: fn(...), name)
SafeCallStep(name, r, call, ups, cond, nextpc) ==
    /\ IF source \in {S_all, name}
       THEN /\ results' = SafeResults(r, results)
            /\ errors' = SafeErrors(r, name, errors)
            /\ calls' = Append(calls, call)
            /\ upstream' = upstream \o ups
            /\ outcome' = [outcome EXCEPT ![name] = cond]
       ELSE UNCHANGED <<results, errors, calls, upstream, outcome>>
    /\ pc' = nextpc
    /\ UNCHANGED <<env, req, limit, source, response>>

CallGoogleTrends ==
    /\ pc = "at_google_trends"
    /\ \E cond \in TrendsConditions :
         SafeCallStep(S_google_trends,
                      get_google_trends(limit, req.payload.country, cond),
                      [name |-> S_google_trends, limit |-> limit,
                       country |-> req.payload.country],
                      TrendsUpstream(req.payload.country), cond, "at_google_news")

CallGoogleNews ==
    /\ pc = "at_google_news"
    /\ \E cond \in FeedConditions :
         SafeCallStep(S_google_news,
                      get_google_news(limit, req.payload.country,
                                      req.payload.language, cond),
                      [name |-> S_google_news, limit |-> limit,
                       country |-> req.payload.country,
                       language |-> req.payload.language],
                      FeedUpstream(NewsUrl(req.payload.country, req.payload.language)),
                      cond, "at_reddit")

CallReddit ==
    /\ pc = "at_reddit"
    /\ \E cond \in (IF RedditKeysMissing THEN {"no upstream call"}
                    ELSE RedditConditions) :
         SafeCallStep(S_reddit,
                      get_reddit(limit, req.payload.subreddit, cond),
                      [name |-> S_reddit, limit |-> limit,
                       subreddit |-> req.payload.subreddit],
                      RedditUpstream(req.payload.subreddit), cond, "at_reuters")

CallReuters ==
    /\ pc = "at_reuters"
    /\ \E cond \in FeedConditions :
         SafeCallStep(S_reuters, get_reuters(limit, cond),
                      [name |-> S_reuters, limit |-> limit],
                      FeedUpstream(ReutersUrl), cond, "at_flipboard")

CallFlipboard ==
    /\ pc = "at_flipboard"
    /\ \E cond \in FeedConditions :
         SafeCallStep(S_flipboard, get_flipboard(limit, cond),
                      [name |-> S_flipboard, limit |-> limit],
                      FeedUpstream(FlipboardUrl), cond, "at_return")

\* the return statement of trending()
TrendingReturn ==
    /\ pc = "at_return"
    /\ response' = Ok(TrendingBody(source, limit, results, errors))
    /\ pc' = "done"
    /\ UNCHANGED <<env, req, limit, source, results, errors, calls, upstream, outcome>>

\* the response is sent; nothing of the request is kept
Finish ==
    /\ pc = "done"
    /\ pc' = "idle"
    /\ req' = NoRequest
    /\ limit' = 0
    /\ source' = <<>>
    /\ results' = <<>>
    /\ errors' = <<>>
    /\ calls' = <<>>
    /\ upstream' = <<>>
    /\ outcome' = NoOutcome
    /\ response' = NoResponse
    /\ UNCHANGED env

Next ==
    \/ Home
    \/ GenerateImage
    \/ TrendingBegin
    \/ CallGoogleTrends
    \/ CallGoogleNews
    \/ CallReddit
    \/ CallReuters
    \/ CallFlipboard
    \/ TrendingReturn
    \/ Finish

Spec == Init /\ [][Next]_vars

----------------------------------------------------------------------------
(* Vocabulary of the properties, written without the operators of the code *)

\* c and d are the same character, or the two cases of one letter
SameLetter(c, d) ==
    \/ c = d
    \/ \E k \in 1..Len(LowerChars) : {c, d} = {LowerChars[k], UpperChars[k]}

EqualIgnoringCase(s, t) ==
    /\ Len(s) = Len(t)
    /\ \A i \in 1..Len(s) : SameLetter(s[i], t[i])

SourceNames == {S_all, S_google_trends, S_google_news, S_reddit, S_reuters,
                S_flipboard}

FixedOrder == <<S_google_trends, S_google_news, S_reddit, S_reuters, S_flipboard>>

RssAdapters == {S_google_news, S_reuters, S_flipboard}

\* the request names one of the six sources in some casing
ValidSource(s) == \E n \in SourceNames : EqualIgnoringCase(s, n)
CanonicalSource(s) == CHOOSE n \in SourceNames : EqualIgnoringCase(s, n)

\* the adapters a canonical source name selects
Selected(n) == IF n = S_all THEN {FixedOrder[i] : i \in 1..5} ELSE {n}

ExpectedLimit(n) == IF n < 1 THEN 1 ELSE IF n > 10 THEN 10 ELSE n

Names(entries) == [i \in 1..Len(entries) |-> entries[i].source]
CallNames == [i \in 1..Len(calls) |-> calls[i].name]
Count(seq, x) == Cardinality({i \in 1..Len(seq) : seq[i] = x})
Range(seq) == {seq[i] : i \in 1..Len(seq)}
Restrict(seq, S) == SelectSeq(seq, LAMBDA x : x \in S)
IsPrefix(s, t) == Len(s) <= Len(t) /\ s = SubSeq(t, 1, Len(s))

InTrending == req.endpoint = "trending"
\* a /trending request that passed the source check
Accepted == InTrending /\ ValidSource(req.payload.source)
\* a /trending request that has returned its dict
Returned == InTrending /\ pc = "done" /\ response.status = 200
SelectedNow == Selected(CanonicalSource(req.payload.source))

\* what an adapter does on its own under the upstream condition it met
Isolated(a) ==
    LET p == req.payload
        n == ExpectedLimit(p.limit) IN
    CASE a = S_google_trends -> get_google_trends(n, p.country, outcome[a])
      [] a = S_google_news   -> get_google_news(n, p.country, p.language, outcome[a])
      [] a = S_reddit        -> get_reddit(n, p.subreddit, outcome[a])
      [] a = S_reuters       -> get_reuters(n, outcome[a])
      [] a = S_flipboard     -> get_flipboard(n, outcome[a])

----------------------------------------------------------------------------
(* Properties *)

\* C1: in the response of an accepted /trending request the adapter names
\* of data and of errors partition the selected adapters: a selected adapter
\* is named exactly once, in one of the two lists, and an unselected adapter
\* in neither; for source "all" the two lists together have 5 entries.
C1_Partition ==
    Returned =>
        LET d == Names(response.body.data)
            e == Names(response.body.errors) IN
        /\ \A a \in Range(FixedOrder) :
              Count(d, a) + Count(e, a) = (IF a \in SelectedNow THEN 1 ELSE 0)
        /\ Range(d) \cup Range(e) = SelectedNow
        /\ CanonicalSource(req.payload.source) = S_all => Len(d) + Len(e) = 5

C1_Witness ==
    /\ Returned
    /\ req.payload.source = S_all
    /\ Len(response.body.data) = 3
    /\ Len(response.body.errors) = 2

\* C2: a /trending request whose source is not a casing of one of the six
\* names ends with 400 and no adapter and no upstream is ever called for it;
\* a request whose source is a casing of one of them is never answered 400
\* and requested_source is the lower-case name.
C2_SourceValidation ==
    InTrending =>
        IF ValidSource(req.payload.source)
        THEN /\ response.status # 400
             /\ source = CanonicalSource(req.payload.source)
             /\ pc = "done" =>
                   /\ response.status = 200
                   /\ response.body.requested_source
                        = CanonicalSource(req.payload.source)
        ELSE /\ pc = "done"
             /\ response.status = 400
             /\ calls = <<>>
             /\ upstream = <<>>

C2_Witness ==
    /\ InTrending
    /\ pc = "done"
    /\ req.payload.source = <<"B","I","N","G">>
    /\ response.status = 400
    /\ calls = <<>>

C2_WitnessCasing ==
    /\ Returned
    /\ req.payload.source = <<"A","L","L">>
    /\ response.body.requested_source = S_all

\* C3: when the call of a selected adapter raised, the response has no data
\* entry of that adapter and exactly one errors entry, {source: its name,
\* error: the message of the exception}; every other selected adapter was
\* invoked once and contributed the entry it produces on its own.
C3_FaultIsolation ==
    Returned =>
        LET d == response.body.data
            e == response.body.errors IN
        \A a \in SelectedNow :
            Isolated(a).raised =>
                /\ Count(Names(d), a) = 0
                /\ Count(Names(e), a) = 1
                /\ [source |-> a, error |-> Isolated(a).exc] \in Range(e)
                /\ \A b \in SelectedNow \ {a} :
                      /\ Count(CallNames, b) = 1
                      /\ IF Isolated(b).raised
                         THEN [source |-> b, error |-> Isolated(b).exc] \in Range(e)
                         ELSE Isolated(b).value \in Range(d)

C3_Witness ==
    /\ Returned
    /\ req.payload.source = S_all
    /\ outcome[S_google_trends] = "error"
    /\ Names(response.body.errors) = <<S_google_trends>>
    /\ Len(response.body.data) = 4

\* C4: an accepted /trending request returns status 200 with success true,
\* whatever the adapters did; a /trending request that ends with an HTTP
\* error ends with the 400 of the source check.
C4_AlwaysSuccess ==
    (InTrending /\ pc = "done") =>
        IF ValidSource(req.payload.source)
        THEN response.status = 200 /\ response.body.success = TRUE
        ELSE response.status = 400 /\ response.detail = "Invalid source"

C4_Witness ==
    /\ Returned
    /\ req.payload.source = S_all
    /\ Len(response.body.errors) = 5
    /\ response.body.data = <<>>
    /\ response.body.success = TRUE

\* C5: in an accepted /trending request with limit n, the limit of the
\* response is max(1, min(n, 10)), it lies in 1..10, and every adapter
\* invoked received that value.
C5_ClampedLimit ==
    Accepted =>
        LET n == ExpectedLimit(req.payload.limit) IN
        /\ n \in 1..10
        /\ limit = n
        /\ \A i \in 1..Len(calls) : calls[i].limit = n
        /\ pc = "done" => response.status = 200 /\ response.body.limit = n

C5_Witness ==
    /\ Returned
    /\ req.payload.limit = 999
    /\ response.body.limit = 10
    /\ Len(calls) = 5
    /\ \A i \in 1..5 : calls[i].limit = 10

\* C6: the adapters invoked so far are a prefix of the fixed order
\* restricted to the selected adapters, and all of it once the request has
\* returned (so each selected adapter is invoked once); the names of data
\* and the names of errors are each in the fixed order.
C6_FixedOrder ==
    Accepted =>
        /\ IsPrefix(CallNames, Restrict(FixedOrder, SelectedNow))
        /\ Names(results) = Restrict(FixedOrder, Range(Names(results)))
        /\ Names(errors) = Restrict(FixedOrder, Range(Names(errors)))
        /\ pc = "done" =>
              /\ CallNames = Restrict(FixedOrder, SelectedNow)
              /\ response.body.data = results
              /\ response.body.errors = errors

C6_Witness ==
    /\ Returned
    /\ CallNames = FixedOrder
    /\ Names(response.body.data) = <<S_google_news, S_flipboard>>
    /\ Names(response.body.errors) = <<S_google_trends, S_reddit, S_reuters>>

\* C7: when the client id or the client secret is unset (or empty), no call
\* to the forum API is made; the response for source "reddit" has the one
\* data entry {source: "reddit", items: [], warning} and no errors, and the
\* response for source "all" names reddit in data and not in errors.
C7_RedditSoftDegrade ==
    (InTrending /\ ~ (Truthy(env.REDDIT_CLIENT_ID) /\ Truthy(env.REDDIT_CLIENT_SECRET))) =>
        /\ \A i \in 1..Len(upstream) : upstream[i].provider # "praw"
        /\ Returned =>
              LET d == response.body.data
                  e == response.body.errors IN
              /\ source = S_reddit =>
                    /\ Len(d) = 1
                    /\ d[1].source = S_reddit
                    /\ d[1].items = <<>>
                    /\ "warning" \in DOMAIN d[1]
                    /\ e = <<>>
              /\ source = S_all =>
                    /\ Count(Names(d), S_reddit) = 1
                    /\ Count(Names(e), S_reddit) = 0
                    /\ \A i \in 1..Len(d) :
                          d[i].source = S_reddit =>
                              d[i].items = <<>> /\ "warning" \in DOMAIN d[i]

C7_Witness ==
    /\ Returned
    /\ env.REDDIT_CLIENT_ID = "set"
    /\ env.REDDIT_CLIENT_SECRET = NoneVal
    /\ source = S_reddit
    /\ Len(response.body.data) = 1
    /\ "warning" \in DOMAIN response.body.data[1]
    /\ response.body.errors = <<>>

ImageDone == req.endpoint = "generate-image" /\ pc = "done"

\* C8, as claimed: a /generate-image request with an empty prompt ends with
\* 400 and without a call to the image provider, in every configuration.
C8_EmptyPromptIs400 ==
    (ImageDone /\ req.payload.prompt = "") =>
        response.status = 400 /\ upstream = <<>>

\* C8, amended: a /generate-image request with an empty prompt ends without
\* a call to the image provider, with 400 when the image API key is
\* configured and with 500 when it is unset or empty.
C8_EmptyPromptRejected ==
    (ImageDone /\ req.payload.prompt = "") =>
        /\ upstream = <<>>
        /\ response.status = (IF Truthy(env.PEXELS_API_KEY) THEN 400 ELSE 500)

C8_Witness ==
    /\ ImageDone
    /\ req.payload.prompt = ""
    /\ env.PEXELS_API_KEY = "set"
    /\ response.status = 400
    /\ upstream = <<>>

\* the five-entry table of the claim
RegionTable ==
    (<<"I","N">> :> "india") @@ (<<"U","S">> :> "united_states")
    @@ (<<"G","B">> :> "united_kingdom") @@ (<<"C","A">> :> "canada")
    @@ (<<"A","U">> :> "australia")

PytrendsCalls == {i \in 1..Len(upstream) : upstream[i].provider = "pytrends"}

\* C9, as claimed: the trends provider is queried for the table's region of
\* the country, and for "india" for every country string not in the table.
C9_RegionByExactCode ==
    InTrending =>
        \A i \in PytrendsCalls :
            upstream[i].pn = (IF req.payload.country \in DOMAIN RegionTable
                              THEN RegionTable[req.payload.country]
                              ELSE "india")

\* C9, amended: the trends provider is queried for the table's region of
\* the upper-cased country, and for "india" for every country string whose
\* upper-cased form is not in the table; the adapter then returns a data
\* entry unless the provider call itself failed.
C9_RegionByUpperCasedCode ==
    Accepted =>
        /\ \A i \in PytrendsCalls :
              LET c == req.payload.country IN
              upstream[i].pn =
                 (IF \E k \in DOMAIN RegionTable : EqualIgnoringCase(c, k)
                  THEN RegionTable[CHOOSE k \in DOMAIN RegionTable :
                                      EqualIgnoringCase(c, k)]
                  ELSE "india")
        /\ (Returned /\ S_google_trends \in SelectedNow) =>
              /\ Cardinality(PytrendsCalls) = 1
              /\ outcome[S_google_trends] = "ok" =>
                    /\ Count(Names(response.body.data), S_google_trends) = 1
                    /\ Count(Names(response.body.errors), S_google_trends) = 0

C9_Witness ==
    /\ Returned
    /\ source = S_google_trends
    /\ req.payload.country = <<"Z","Z">>
    /\ upstream = <<[provider |-> "pytrends", pn |-> "india"]>>
    /\ Names(response.body.data) = <<S_google_trends>>
    /\ response.body.errors = <<>>

\* C10: when the feed fetch of an RSS adapter met a network error or a
\* malformed document, the response names the adapter in errors and has no
\* data entry of it.
C10_FeedFailureIsError ==
    Returned =>
        \A a \in RssAdapters \cap SelectedNow :
            outcome[a] \in {"malformed", "unreachable", "reset"} =>
                /\ Count(Names(response.body.errors), a) = 1
                /\ Count(Names(response.body.data), a) = 0

====
